---- MODULE Spec2Model ----
(***************************************************************************)
(* A model of prozessleitung.pipeline.Pipeline: a list of directives, a    *)
(* checkpoint store, a cached result and an optional parent linkage.       *)
(* Python values are tagged records, strings are sequences of characters,  *)
(* a dict is a TLA+ function whose DOMAIN is the dict's key set.           *)
(***************************************************************************)
EXTENDS Integers, Sequences, FiniteSets, TLC

(* ---------------------------- bounds ---------------------------------- *)
MaxLen == 3
MaxChildLen == 1
MaxItems == 2
MaxContainer == 3
MaxArgs == 3

(* ------------------------- Python values ------------------------------ *)
None == [none |-> TRUE]
VInt(n) == [int |-> n]
VStr(s) == [str |-> s]
VTup(s) == [tup |-> s]
VFn(f) == [fn |-> f]
VDict(d) == [dict |-> d]
VGen(sel) == [gen |-> sel]
VList(s) == [list |-> s]

IsInt(x) == "int" \in DOMAIN x
IsStr(x) == "str" \in DOMAIN x
IsTup(x) == "tup" \in DOMAIN x
IsDict(x) == "dict" \in DOMAIN x

ResultToken == VStr(<<"_", "_">>)
EmptyStr == VStr(<<>>)
NameA == VStr(<<"a">>)
NameB == VStr(<<"b">>)
RefA == VStr(<<"$", "$", "a", "$", "$">>)
RefB == VStr(<<"$", "$", "b", "$", "$">>)
EmptyDict == [k \in {} |-> None]

(* ---------------------- outcomes of a computation --------------------- *)
Ok(v) == [ok |-> TRUE, val |-> v, exc |-> "none", kind |-> "none", name |-> None]
Raise(exc, kind, name) == [ok |-> FALSE, val |-> None, exc |-> exc, kind |-> kind, name |-> name]

(* ---------------------- the callables of a directive ------------------ *)
\* container[index] for an element of result_select
Subscript(container, index) ==
  IF IsTup(container) /\ IsInt(index)
    THEN IF index.int >= 0 /\ index.int < Len(container.tup)
           THEN Ok(container.tup[index.int + 1])
         ELSE IF index.int < 0 /\ -index.int <= Len(container.tup)
           THEN Ok(container.tup[Len(container.tup) + index.int + 1])
         ELSE Raise("IndexError", "IndexError", None)
  ELSE IF IsStr(container) /\ IsInt(index)
    THEN IF index.int >= 0 /\ index.int < Len(container.str)
           THEN Ok(VStr(<<container.str[index.int + 1]>>))
         ELSE IF index.int < 0 /\ -index.int <= Len(container.str)
           THEN Ok(VStr(<<container.str[Len(container.str) + index.int + 1]>>))
         ELSE Raise("IndexError", "IndexError", None)
  ELSE Raise("TypeError", "TypeError", None)

\* the elements of (result[i] for i in result_select) when it is iterated:
\* `result` is the local variable of _execute, read at that moment (cell)
GenItems(sel, cell) ==
  LET idx == IF IsTup(sel) THEN sel.tup ELSE <<>>
      items == [k \in 1..Len(idx) |-> Subscript(cell, idx[k])]
  IN IF \E k \in 1..Len(idx) : ~items[k].ok
       THEN items[CHOOSE k \in 1..Len(idx) :
                    ~items[k].ok /\ \A j \in 1..(k - 1) : items[j].ok]
       ELSE Ok(VTup([k \in 1..Len(idx) |-> items[k].val]))

\* tuple(x), with the local variable `result` of the running _execute
Materialize(x, cell) ==
  IF IsTup(x) THEN Ok(x)
  ELSE IF IsStr(x) THEN Ok(VTup([i \in 1..Len(x.str) |-> VStr(<<x.str[i]>>)]))
  ELSE IF "gen" \in DOMAIN x THEN GenItems(x.gen, cell)
  ELSE Raise("TypeError", "TypeError", None)

Params(f) == IF f = "add" THEN <<"x", "y">> ELSE <<"x">>

Mul2(x) ==
  IF IsInt(x) THEN Ok(VInt(x.int * 2))
  ELSE IF IsStr(x) THEN Ok(VStr(x.str \o x.str))
  ELSE IF IsTup(x) THEN Ok(VTup(x.tup \o x.tup))
  ELSE Raise("TypeError", "TypeError", None)

Plus(x, y) ==
  IF IsInt(x) /\ IsInt(y) THEN Ok(VInt(x.int + y.int))
  ELSE IF IsStr(x) /\ IsStr(y) THEN Ok(VStr(x.str \o y.str))
  ELSE IF IsTup(x) /\ IsTup(y) THEN Ok(VTup(x.tup \o y.tup))
  ELSE Raise("TypeError", "TypeError", None)

CallBound(f, b, cell) ==
  IF f = "double" THEN Mul2(b["x"])
  ELSE IF f = "add" THEN Plus(b["x"], b["y"])
  ELSE IF f = "both" THEN
    LET d == Mul2(b["x"]) IN IF d.ok THEN Ok(VTup(<<b["x"], d.val>>)) ELSE d
  ELSE IF f = "tuple" THEN Materialize(b["x"], cell)
  ELSE Raise("TypeError", "TypeError", None)

Apply(f, args, kw, cell) ==
  LET ps == Params(f)
      n  == Len(args)
      rest == IF n <= Len(ps) THEN {ps[i] : i \in (n + 1)..Len(ps)} ELSE {}
  IN IF n > Len(ps) \/ DOMAIN kw # rest
       THEN Raise("TypeError", "TypeError", None)
       ELSE CallBound(f, [x \in {ps[i] : i \in 1..Len(ps)} |->
                           IF x \in rest THEN kw[x]
                           ELSE args[CHOOSE i \in 1..n : ps[i] = x]], cell)

(* --------------------------- Pipeline methods ------------------------- *)
\* re.match("^\$\$(.+)\$\$$", arg): "$" also matches before one final newline,
\* "." matches anything but a newline.
ReBody(s) == IF Len(s) >= 1 /\ s[Len(s)] = "\n" THEN SubSeq(s, 1, Len(s) - 1) ELSE s

ReMatches(s) ==
  LET t == ReBody(s)
      m == Len(t)
  IN /\ m >= 5
     /\ t[1] = "$" /\ t[2] = "$" /\ t[m - 1] = "$" /\ t[m] = "$"
     /\ \A i \in 3..(m - 2) : t[i] # "\n"

ReGroup(s) == LET t == ReBody(s) IN SubSeq(t, 3, Len(t) - 2)

_get(dictionary, key) == IF key \in DOMAIN dictionary THEN dictionary[key] ELSE None

select_result(res, index) == res.tup[index + 1]

result_redirector_NoSubst(res, args) == args

result_redirector_FirstOnly(res, args) ==
  [i \in 1..Len(args) |->
     IF args[i] = ResultToken /\ \A j \in 1..(i - 1) : args[j] # ResultToken
       THEN res ELSE args[i]]

result_redirector(res, args) ==
  [i \in 1..Len(args) |-> IF args[i] = ResultToken THEN res ELSE args[i]]

IsRef(arg) == IsStr(arg) /\ ReMatches(arg.str)

checkpoint_redirector_Lenient(ck, args) ==
  Ok(VTup([i \in 1..Len(args) |->
            IF IsRef(args[i]) /\ VStr(ReGroup(args[i].str)) \in DOMAIN ck
              THEN ck[VStr(ReGroup(args[i].str))]
              ELSE args[i]]))

checkpoint_redirector(ck, args) ==
  LET missing == {i \in 1..Len(args) :
                    IsRef(args[i]) /\ VStr(ReGroup(args[i].str)) \notin DOMAIN ck}
  IN IF missing # {}
       THEN LET first == CHOOSE i \in missing : \A j \in missing : i <= j
            IN Raise("KeyError", "NotFound", VStr(ReGroup(args[first].str)))
       ELSE Ok(VTup([i \in 1..Len(args) |->
                      IF IsRef(args[i]) THEN ck[VStr(ReGroup(args[i].str))]
                      ELSE args[i]]))

checkpoint_Overwrite(ck, name, value) ==
  IF name = EmptyStr THEN [ok |-> FALSE, exc |-> "ValueError", store |-> ck]
  ELSE [ok |-> TRUE, exc |-> "none",
        store |-> [k \in DOMAIN ck \cup {name} |-> IF k = name THEN value ELSE ck[k]]]

\* Pipeline.checkpoint: the new store, or the error raised.
checkpoint(ck, name, value) ==
  IF name = EmptyStr THEN [ok |-> FALSE, exc |-> "ValueError", store |-> ck]
  ELSE IF name \in DOMAIN ck THEN [ok |-> FALSE, exc |-> "KeyError", store |-> ck]
  ELSE [ok |-> TRUE, exc |-> "none",
        store |-> [k \in DOMAIN ck \cup {name} |-> IF k = name THEN value ELSE ck[k]]]

\* UserList.__getitem__ as used by parent_pipeline[starting_checkpoint]:
\* a list indexed by anything but an integer raises TypeError.
PipelineGetItem(data, key) ==
  IF IsInt(key)
    THEN IF key.int >= 0 /\ key.int < Len(data) THEN Ok(data[key.int + 1])
         ELSE Raise("IndexError", "IndexError", None)
    ELSE Raise("TypeError", "TypeError", None)

Iterable(x) == IsTup(x) \/ IsStr(x) \/ IsDict(x) \/ "gen" \in DOMAIN x

ArgSeq(a) ==
  IF IsTup(a) THEN a.tup ELSE [i \in 1..Len(a.str) |-> VStr(<<a.str[i]>>)]

NoCall == [fn |-> "none", inp |-> None, args |-> <<>>, ret |-> None, raised |-> FALSE]

\* One iteration of the loop of Pipeline._execute on `directive` with the
\* running result `res` and the checkpoint store `ck`.
Step(res, ck, called, call, out) ==
  [res |-> res, ck |-> ck, called |-> called, call |-> call, out |-> out]

ExecBody(directive, res, ck) ==
  IF ~IsDict(directive)
    THEN Step(res, ck, FALSE, NoCall, Raise("TypeError", "TypeError", None))
  ELSE IF "function" \notin DOMAIN directive.dict
    THEN Step(res, ck, FALSE, NoCall, Raise("KeyError", "KeyError", None))
  ELSE
    LET d == directive.dict
        func == d["function"]
        a0 == _get(d, "args")
        args == IF a0 = None THEN VTup(<<ResultToken>>) ELSE a0
        kwargs == _get(d, "kwargs")
        cp == _get(d, "checkpoint")
        result_select == _get(d, "result_select")
    IN IF ~(IsTup(args) \/ IsStr(args))
         THEN Step(res, ck, FALSE, NoCall, Raise("TypeError", "TypeError", None))
       ELSE
         LET redirected == result_redirector(res, ArgSeq(args))
             new_args == checkpoint_redirector(ck, redirected)
         IN IF ~new_args.ok THEN Step(res, ck, FALSE, NoCall, new_args)
            ELSE
              LET nokw == (kwargs = EmptyStr) \/ (kwargs = None)
                  ret == IF "fn" \notin DOMAIN func \/ ~(nokw \/ IsDict(kwargs))
                           THEN Raise("TypeError", "TypeError", None)
                           ELSE Apply(func.fn, new_args.val.tup,
                                      IF nokw THEN EmptyDict ELSE kwargs.dict, res)
                  call == [fn |-> IF "fn" \in DOMAIN func THEN func.fn ELSE "none",
                           inp |-> res, args |-> new_args.val.tup,
                           ret |-> ret.val, raised |-> ~ret.ok]
              IN IF ~ret.ok THEN Step(res, ck, TRUE, call, ret)
                 ELSE
                   LET stored == IF cp # None THEN checkpoint(ck, cp, ret.val)
                                 ELSE [ok |-> TRUE, exc |-> "none", store |-> ck]
                   IN IF ~stored.ok
                        THEN Step(ret.val, ck, TRUE, call,
                                  Raise(stored.exc, "NameConflict", cp))
                      ELSE IF result_select = None
                        THEN Step(ret.val, stored.store, TRUE, call, Ok(ret.val))
                      ELSE IF ~Iterable(result_select)
                        THEN Step(ret.val, stored.store, TRUE, call,
                                  Raise("TypeError", "TypeError", None))
                      ELSE Step(VGen(result_select), stored.store, TRUE, call,
                                Ok(VGen(result_select)))

(* ------------------------------ state --------------------------------- *)
Pipes == {"p", "q"}
Children == {"q"}
NoPipe == "None"

\* directives of the scenarios: def double(x): return x*2,
\* def add(x, y): return x+y, def both(x): return (x, x*2)
DoubleA == VDict([function |-> VFn("double"), checkpoint |-> NameA])
AddA == VDict([function |-> VFn("add"), args |-> VTup(<<ResultToken, RefA>>)])
Double == VDict([function |-> VFn("double")])
AddB == VDict([function |-> VFn("add"), args |-> VTup(<<ResultToken, RefB>>),
               checkpoint |-> NameB])
DoubleReserved == VDict([function |-> VFn("double"), checkpoint |-> EmptyStr])
BothB == VDict([function |-> VFn("both"), result_select |-> VTup(<<VInt(0)>>),
                checkpoint |-> NameB])

Pool == {DoubleA, AddA, AddB, DoubleReserved, BothB}
ChildPool == {Double}
Seeds == {VInt(3)}
Data == Seeds \cup {None}
AttachNames == {None, NameA}

Lists(pool, n) == UNION {[1..k -> pool] : k \in 0..n}

VARIABLES directives, checkpoints, result, parent_pipeline,
          starting_checkpoint, from_checkpoint,
          pc, self, order, running, inv, roundtrip, app, rr

vars == <<directives, checkpoints, result, parent_pipeline,
          starting_checkpoint, from_checkpoint,
          pc, self, order, running, inv, roundtrip, app, rr>>

frame == <<pc, self, order, running>>
linkage == <<parent_pipeline, starting_checkpoint, from_checkpoint, roundtrip>>
aux == <<app, rr>>

\* app records the last call of append, rr one application of
\* result_redirector
NoApp == [pipe |-> NoPipe, items |-> <<>>, before |-> <<>>, raised |-> FALSE]
NoRR == [res |-> None, args |-> <<>>, out |-> <<>>, applied |-> FALSE]

\* what an invocation remembers of the invocation before it, when that one
\* was of the same pipeline with the same data, linkage and directive list
NoPrev == [twice |-> FALSE, data |-> None, parent |-> NoPipe, sc |-> None,
           dirs |-> <<>>, seeded |-> FALSE, seed |-> None,
           status |-> "none", exc |-> "none", kind |-> "none", name |-> None]

\* inv records the invocation in progress or the last one finished.
NoInv == [pipe |-> NoPipe, data |-> None, parent |-> NoPipe, sc |-> None,
          pstore |-> EmptyDict, presult |-> None, ostore |-> EmptyDict,
          oresult |-> None, dirs |-> <<>>, rt |-> FALSE,
          warned |-> FALSE, seeded |-> FALSE, seed |-> None,
          status |-> "none", exc |-> "none", kind |-> "none", name |-> None,
          at |-> 0, calls |-> <<>>, ret |-> None, prev |-> NoPrev]

Init ==
  /\ directives \in {[x \in Pipes |-> IF x = "p" THEN l ELSE m] :
                       l \in Lists(Pool, MaxLen), m \in Lists(ChildPool, MaxChildLen)}
  /\ checkpoints = [x \in Pipes |-> EmptyDict]
  /\ result = [x \in Pipes |-> None]
  /\ parent_pipeline = [x \in Pipes |-> NoPipe]
  /\ starting_checkpoint = [x \in Pipes |-> None]
  /\ from_checkpoint = [x \in Pipes |-> "unset"]
  /\ roundtrip = [x \in Pipes |-> FALSE]
  /\ pc = "idle" /\ self = NoPipe /\ order = 0 /\ running = None
  /\ inv = NoInv
  /\ app = NoApp /\ rr = NoRR

ResetResult_Keep(res, x) == res

\* self.result = None
ResetResult(res, x) == [res EXCEPT ![x] = None]

ResetStore_Keep(cks, x) == cks

\* self.checkpoints = dict()
ResetStore(cks, x) == [cks EXCEPT ![x] = EmptyDict]

NeitherGiven_Inverted(data, par) == data = None /\ par # NoPipe

\* (data is None) and (self.parent_pipeline is None)
NeitherGiven(data, par) == data = None /\ par = NoPipe

\* (data is not None) and (self.parent_pipeline is not None)
BothGiven(data, par) == data # None /\ par # NoPipe

CacheResult_Skip(res, x, value) == res

\* self.result = result, at the end of _execute
CacheResult(res, x, value) == [res EXCEPT ![x] = value]

\* parent_pipeline[starting_checkpoint] in its try/except KeyError,
\* or parent_pipeline.result
Pull(x, res1) ==
  LET par == parent_pipeline[x]
      sc == starting_checkpoint[x]
  IN IF sc # None
       THEN LET g == PipelineGetItem(directives[par], sc)
            IN IF g.exc = "KeyError" THEN Raise("KeyError", "NotFound", sc) ELSE g
       ELSE Ok(res1[par])

\* Pipeline.__call__ up to the first iteration of _execute
CallBody(x, data) ==
  /\ pc = "idle"
  /\ LET res1 == ResetResult(result, x)
         ck1 == ResetStore(checkpoints, x)
         par == parent_pipeline[x]
         base == [NoInv EXCEPT !.pipe = x, !.data = data, !.parent = par,
                    !.sc = starting_checkpoint[x],
                    !.pstore = IF par = NoPipe THEN EmptyDict ELSE checkpoints[par],
                    !.presult = IF par = NoPipe THEN None ELSE result[par],
                    !.ostore = checkpoints[x], !.oresult = result[x],
                    !.dirs = directives[x], !.rt = roundtrip[x],
                    !.prev = IF /\ inv.pipe = x /\ inv.status \in {"returned", "raised"}
                                  /\ inv.data = data /\ inv.parent = par
                                  /\ inv.sc = starting_checkpoint[x]
                                  /\ inv.dirs = directives[x]
                               THEN [twice |-> TRUE, data |-> inv.data,
                                     parent |-> inv.parent, sc |-> inv.sc,
                                     dirs |-> inv.dirs, seeded |-> inv.seeded,
                                     seed |-> inv.seed, status |-> inv.status,
                                     exc |-> inv.exc, kind |-> inv.kind,
                                     name |-> inv.name]
                               ELSE NoPrev]
     IN /\ checkpoints' = ck1
        /\ IF NeitherGiven(data, par)
             THEN /\ result' = res1
                  /\ inv' = [base EXCEPT !.status = "raised", !.exc = "ValueError",
                                         !.kind = "MissingInput"]
                  /\ UNCHANGED frame
             ELSE LET warned == BothGiven(data, par)
                      seed == IF par # NoPipe THEN Pull(x, res1) ELSE Ok(data)
                      inv1 == [base EXCEPT !.warned = warned]
                  IN IF ~seed.ok
                       THEN /\ result' = res1
                            /\ inv' = [inv1 EXCEPT !.status = "raised", !.exc = seed.exc,
                                                   !.kind = seed.kind, !.name = seed.name]
                            /\ UNCHANGED frame
                     ELSE IF Len(directives[x]) = 0
                       THEN /\ result' = CacheResult(res1, x, seed.val)
                            /\ inv' = [inv1 EXCEPT !.status = "returned", !.seeded = TRUE,
                                                   !.seed = seed.val, !.ret = seed.val]
                            /\ UNCHANGED frame
                       ELSE /\ result' = res1
                            /\ inv' = [inv1 EXCEPT !.status = "running", !.seeded = TRUE,
                                                   !.seed = seed.val]
                            /\ pc' = "exec" /\ self' = x /\ order' = 1
                            /\ running' = seed.val

Call_Unlinking(x, data) ==
  /\ CallBody(x, data)
  /\ parent_pipeline' = [parent_pipeline EXCEPT ![x] = NoPipe]
  /\ starting_checkpoint' = [starting_checkpoint EXCEPT ![x] = None]
  /\ UNCHANGED <<directives, from_checkpoint, roundtrip, aux>>

Call(x, data) ==
  /\ CallBody(x, data)
  /\ UNCHANGED <<directives, linkage, aux>>

\* one iteration of the loop of _execute; after the last one, the result is
\* cached and returned
ExecStep ==
  /\ pc = "exec"
  /\ LET b == ExecBody(directives[self][order], running, checkpoints[self])
         inv1 == IF b.called THEN [inv EXCEPT !.calls = Append(@, b.call)] ELSE inv
     IN /\ checkpoints' = [checkpoints EXCEPT ![self] = b.ck]
        /\ IF ~b.out.ok
             THEN /\ inv' = [inv1 EXCEPT !.status = "raised", !.exc = b.out.exc,
                                         !.kind = b.out.kind, !.name = b.out.name,
                                         !.at = order]
                  /\ pc' = "idle" /\ self' = NoPipe /\ order' = 0 /\ running' = None
                  /\ UNCHANGED result
           ELSE IF order = Len(directives[self])
             THEN /\ result' = CacheResult(result, self, b.res)
                  /\ inv' = [inv1 EXCEPT !.status = "returned", !.ret = b.res]
                  /\ pc' = "idle" /\ self' = NoPipe /\ order' = 0 /\ running' = None
             ELSE /\ order' = order + 1
                  /\ running' = b.res
                  /\ inv' = inv1
                  /\ UNCHANGED <<result, pc, self>>
  /\ UNCHANGED <<directives, linkage, aux>>

Attach(x, other_pipeline, checkpoint_name) ==
  /\ pc = "idle"
  /\ from_checkpoint' = [from_checkpoint EXCEPT ![x] = "True"]
  /\ parent_pipeline' = [parent_pipeline EXCEPT ![x] = other_pipeline]
  /\ starting_checkpoint' = [starting_checkpoint EXCEPT ![x] = checkpoint_name]
  /\ roundtrip' = [roundtrip EXCEPT ![x] = FALSE]
  /\ UNCHANGED <<directives, checkpoints, result, frame, inv, aux>>

Detach_KeepParent(x) ==
  /\ pc = "idle"
  /\ from_checkpoint' = [from_checkpoint EXCEPT ![x] = "False"]
  /\ starting_checkpoint' = [starting_checkpoint EXCEPT ![x] = None]
  /\ roundtrip' = [roundtrip EXCEPT ![x] = (from_checkpoint[x] = "True")]
  /\ UNCHANGED <<directives, checkpoints, result, frame, inv, parent_pipeline, aux>>

Detach(x) ==
  /\ pc = "idle"
  /\ from_checkpoint' = [from_checkpoint EXCEPT ![x] = "False"]
  /\ parent_pipeline' = [parent_pipeline EXCEPT ![x] = NoPipe]
  /\ starting_checkpoint' = [starting_checkpoint EXCEPT ![x] = None]
  /\ roundtrip' = [roundtrip EXCEPT ![x] = (from_checkpoint[x] = "True")]
  /\ UNCHANGED <<directives, checkpoints, result, frame, inv, aux>>

DoCall == \E x \in Pipes, data \in Data : Call(x, data)
DoAttach == \E x \in Children, o \in Pipes, n \in AttachNames : Attach(x, o, n)
DoDetach == \E x \in Children : Detach(x)

Next == DoCall \/ ExecStep \/ DoAttach \/ DoDetach

Spec == Init /\ [][Next]_vars

(* ------------------------------ append -------------------------------- *)
AllowedKeys == {"function", "args", "kwargs", "checkpoint", "result_select"}

\* the two tests append makes on a candidate
ValidItem(item) == IsDict(item) /\ DOMAIN item.dict \subseteq AllowedKeys

append_Eager(data, items) ==
  IF \E i \in 1..Len(items) : ~ValidItem(items[i])
    THEN LET bad == CHOOSE i \in 1..Len(items) :
                      ~ValidItem(items[i]) /\ \A j \in 1..(i - 1) : ValidItem(items[j])
         IN [ok |-> FALSE, exc |-> "ValueError", data |-> data \o SubSeq(items, 1, bad - 1)]
  ELSE IF Len(items) = 1
    THEN [ok |-> TRUE, exc |-> "none", data |-> Append(data, VList(items))]
    ELSE [ok |-> TRUE, exc |-> "none", data |-> data \o items]

\* Pipeline.append on the container `data`: every candidate is validated
\* first; a sequence of one candidate is then appended as it is (the
\* sequence, not its element), any other sequence element by element.
append(data, items) ==
  IF \E i \in 1..Len(items) : ~ValidItem(items[i])
    THEN [ok |-> FALSE, exc |-> "ValueError", data |-> data]
  ELSE IF Len(items) = 1
    THEN [ok |-> TRUE, exc |-> "none", data |-> Append(data, VList(items))]
    ELSE [ok |-> TRUE, exc |-> "none", data |-> data \o items]

AppendItems(x, items) ==
  /\ pc = "idle"
  /\ Len(directives[x]) + Len(items) <= MaxContainer
  /\ LET r == append(directives[x], items)
     IN /\ directives' = [directives EXCEPT ![x] = r.data]
        /\ app' = [pipe |-> x, items |-> items, before |-> directives[x],
                   raised |-> ~r.ok]
  /\ UNCHANGED <<checkpoints, result, linkage, frame, inv, rr>>

BadKey == VDict([function |-> VFn("double"), foo |-> VInt(1)])
NoFunction == VDict([args |-> VTup(<<ResultToken>>)])
NotDict == VInt(7)
Candidates == {Double, BadKey, NoFunction, NotDict}
Appenders == {"p"}

InitAppend ==
  /\ directives \in {[x \in Pipes |-> IF x = "p" THEN l ELSE <<>>] :
                       l \in Lists(ChildPool, MaxChildLen)}
  /\ checkpoints = [x \in Pipes |-> EmptyDict]
  /\ result = [x \in Pipes |-> None]
  /\ parent_pipeline = [x \in Pipes |-> NoPipe]
  /\ starting_checkpoint = [x \in Pipes |-> None]
  /\ from_checkpoint = [x \in Pipes |-> "unset"]
  /\ roundtrip = [x \in Pipes |-> FALSE]
  /\ pc = "idle" /\ self = NoPipe /\ order = 0 /\ running = None
  /\ inv = NoInv
  /\ app = NoApp /\ rr = NoRR

DoAppend == \E x \in Appenders, items \in Lists(Candidates, MaxItems) : AppendItems(x, items)

NextAppend == DoAppend \/ DoCall \/ ExecStep

SpecAppend == InitAppend /\ [][NextAppend]_vars


(* ----------------- values that flow through the engine ---------------- *)
\* tuple(x) as a directive, and add('$$', 'a$$'), which returns '$$a$$'
Collect == VDict([function |-> VFn("tuple")])
MakeRefA == VDict([function |-> VFn("add"),
                   args |-> VTup(<<VStr(<<"$", "$">>), VStr(<<"a", "$", "$">>)>>)])
ValuePool == {DoubleA, Double, MakeRefA, BothB, Collect}

InitValues ==
  /\ directives \in {[x \in Pipes |-> IF x = "p" THEN l ELSE <<>>] :
                       l \in Lists(ValuePool, MaxLen)}
  /\ checkpoints = [x \in Pipes |-> EmptyDict]
  /\ result = [x \in Pipes |-> None]
  /\ parent_pipeline = [x \in Pipes |-> NoPipe]
  /\ starting_checkpoint = [x \in Pipes |-> None]
  /\ from_checkpoint = [x \in Pipes |-> "unset"]
  /\ roundtrip = [x \in Pipes |-> FALSE]
  /\ pc = "idle" /\ self = NoPipe /\ order = 0 /\ running = None
  /\ inv = NoInv
  /\ app = NoApp /\ rr = NoRR

NextValues == DoCall \/ ExecStep

SpecValues == InitValues /\ [][NextValues]_vars

(* ------------------------- result_redirector -------------------------- *)
RRResults == {VInt(10), None, RefA}
RRArgs == {ResultToken, VInt(5), RefA, VStr(<<"_">>)}

InitRedirect ==
  /\ directives = [x \in Pipes |-> <<>>]
  /\ checkpoints = [x \in Pipes |-> EmptyDict]
  /\ result = [x \in Pipes |-> None]
  /\ parent_pipeline = [x \in Pipes |-> NoPipe]
  /\ starting_checkpoint = [x \in Pipes |-> None]
  /\ from_checkpoint = [x \in Pipes |-> "unset"]
  /\ roundtrip = [x \in Pipes |-> FALSE]
  /\ pc = "idle" /\ self = NoPipe /\ order = 0 /\ running = None
  /\ inv = NoInv /\ app = NoApp
  /\ rr \in {[NoRR EXCEPT !.res = r, !.args = a] :
               r \in RRResults, a \in Lists(RRArgs, MaxArgs)}

Redirect ==
  /\ ~rr.applied
  /\ rr' = [rr EXCEPT !.out = result_redirector(rr.res, rr.args), !.applied = TRUE]
  /\ UNCHANGED <<directives, checkpoints, result, linkage, frame, inv, app>>

NextRedirect == Redirect

SpecRedirect == InitRedirect /\ [][NextRedirect]_vars

(* ------------------------------ claims -------------------------------- *)
Started == inv.status \in {"running", "returned", "raised"}
Finished == inv.status \in {"returned", "raised"}
Unlinked == inv.parent = NoPipe
NDirs == Len(inv.dirs)
FnOf(d) == d.dict["function"].fn
CheckpointOf(d) == _get(d.dict, "checkpoint")

\* the running result a directive leaves for its successor, given the
\* value its function returned
Handed(d, ret) ==
  IF _get(d.dict, "result_select") = None THEN ret
  ELSE VGen(_get(d.dict, "result_select"))

Scenario == <<DoubleA, AddA>>

\* C1 as stated: for every directive list of length >= 1 run on an explicit
\* seed without a parent, the directives are called in index order, each one
\* fed the output of its predecessor, the output of the last one is returned
\* and cached, and the scenario [double/a, add('__','$$a$$')] on 3 ends with
\* a = 6 and result 9.
C1_Original ==
  (Finished /\ Unlinked /\ inv.data # None /\ NDirs >= 1) =>
    /\ inv.status = "returned"
    /\ Len(inv.calls) = NDirs
    /\ \A i \in 1..NDirs :
         /\ inv.calls[i].fn = FnOf(inv.dirs[i])
         /\ inv.calls[i].inp = IF i = 1 THEN inv.data ELSE inv.calls[i - 1].ret
    /\ inv.ret = inv.calls[NDirs].ret
    /\ result[inv.pipe] = inv.calls[NDirs].ret
    /\ (inv.dirs = Scenario /\ inv.data = VInt(3)) =>
         /\ checkpoints[inv.pipe] = [k \in {NameA} |-> VInt(6)]
         /\ result[inv.pipe] = VInt(9)

\* C1 amended: for every directive list of length >= 1 run on an explicit
\* seed without a parent, the functions called are those of the directives in
\* index order, the first is fed the seed and each later one the value its
\* predecessor handed on (its output, or the lazy projection when it has
\* result_select); when the invocation completes, the value handed on by the
\* last directive is returned and cached; the scenario on seed 3 ends with
\* checkpoint a = 6 and result 12.
C1_Amended ==
  (Started /\ Unlinked /\ inv.data # None /\ NDirs >= 1) =>
    /\ Len(inv.calls) <= NDirs
    /\ \A i \in 1..Len(inv.calls) :
         /\ inv.calls[i].fn = FnOf(inv.dirs[i])
         /\ inv.calls[i].inp = IF i = 1 THEN inv.data
                               ELSE Handed(inv.dirs[i - 1], inv.calls[i - 1].ret)
    /\ inv.status = "returned" =>
         /\ Len(inv.calls) = NDirs
         /\ inv.ret = Handed(inv.dirs[NDirs], inv.calls[NDirs].ret)
         /\ result[inv.pipe] = inv.ret
    /\ (Finished /\ inv.dirs = Scenario /\ inv.data = VInt(3)) =>
         /\ inv.status = "returned"
         /\ checkpoints[inv.pipe] = [k \in {NameA} |-> VInt(6)]
         /\ result[inv.pipe] = VInt(12)

C1_Witness ==
  /\ inv.status = "returned" /\ Unlinked
  /\ inv.dirs = Scenario /\ inv.data = VInt(3)
  /\ result[inv.pipe] = VInt(12)

\* C2: invoking a pipeline without parent and without data raises
\* MissingInput whatever its directive list, and calls no directive function.
C2_MissingInput ==
  (Started /\ Unlinked /\ inv.data = None) =>
    /\ inv.status = "raised"
    /\ inv.kind = "MissingInput"
    /\ inv.exc = "ValueError"
    /\ inv.calls = <<>>

C2_Witness ==
  /\ inv.status = "raised" /\ inv.kind = "MissingInput"
  /\ Unlinked /\ inv.data = None /\ NDirs = MaxLen

\* the invocation pulls its seed from a named checkpoint of a parent
FromCheckpoint == Started /\ inv.parent # NoPipe /\ inv.sc # None

\* C3: a child attached with checkpoint name c whose parent's store holds c
\* starts from the value stored under c in the parent's store.
C3_SeedFromParentCheckpoint ==
  (FromCheckpoint /\ inv.sc \in DOMAIN inv.pstore) =>
    /\ inv.seeded
    /\ inv.seed = inv.pstore[inv.sc]

\* C4: a child attached with a checkpoint name c that the parent's store
\* does not hold fails with NotFound naming c, and runs none of its directives.
C4_MissingParentCheckpoint ==
  (FromCheckpoint /\ inv.sc \notin DOMAIN inv.pstore) =>
    /\ inv.status = "raised"
    /\ inv.kind = "NotFound"
    /\ inv.name = inv.sc
    /\ inv.calls = <<>>

\* directive j is the second of two directives that both reached the point
\* of storing their output under one name
SecondStore(i, j) ==
  /\ i < j /\ j <= Len(inv.calls)
  /\ CheckpointOf(inv.dirs[i]) # None
  /\ CheckpointOf(inv.dirs[i]) = CheckpointOf(inv.dirs[j])
  /\ ~inv.calls[j].raised

C5_State ==
  /\ \A x \in Pipes : EmptyStr \notin DOMAIN checkpoints[x]
  /\ Started =>
       \A j \in 1..NDirs : \A i \in 1..(j - 1) :
         SecondStore(i, j) =>
           /\ inv.status = "raised"
           /\ inv.kind = "NameConflict"
           /\ inv.name = CheckpointOf(inv.dirs[j])
           /\ inv.at = j
           /\ Len(inv.calls) = j
           /\ checkpoints[inv.pipe][CheckpointOf(inv.dirs[i])] = inv.calls[i].ret

C5_Step ==
  pc = "exec" =>
    \A n \in DOMAIN checkpoints[self] :
      /\ n \in DOMAIN checkpoints'[self]
      /\ checkpoints'[self][n] = checkpoints[self][n]

\* C5: when two directives of a pipeline store under one name, the second
\* store raises NameConflict, the value saved by the first stays in the store
\* and no later directive runs; during a run a stored value never changes,
\* and the empty string is never a key of a store.
C5_NameConflict == [](C5_State) /\ [][C5_Step]_vars

C5_Witness ==
  /\ inv.status = "raised" /\ inv.kind = "NameConflict" /\ inv.exc = "KeyError"
  /\ inv.at = 2 /\ NDirs = 3
  /\ inv.name \in DOMAIN checkpoints[inv.pipe]

\* the literal checkpoint references '$$n$$' among the arguments of a directive
RefsOf(d) ==
  LET a == _get(d.dict, "args")
  IN IF a = None THEN {}
     ELSE {VStr(ReGroup(a.tup[k].str)) : k \in {m \in 1..Len(a.tup) : IsRef(a.tup[m])}}

\* the run has come to directive i: no error before it
Reached(i) ==
  /\ inv.seeded
  /\ inv.status = "running" => order > i
  /\ inv.status = "raised" => inv.at >= i

\* C6: a directive with an argument '$$n$$' that is reached when no earlier
\* directive of the run has stored n (it may declare n itself) raises
\* NotFound; its function is not called and no later directive runs.
C6_ReferenceBeforeStore ==
  \A i \in 1..NDirs :
    (/\ Reached(i)
     /\ \E n \in RefsOf(inv.dirs[i]) :
          \A j \in 1..(i - 1) : CheckpointOf(inv.dirs[j]) # n) =>
      /\ inv.status = "raised"
      /\ inv.kind = "NotFound"
      /\ inv.name \in RefsOf(inv.dirs[i])
      /\ inv.at = i
      /\ Len(inv.calls) = i - 1

C6_Witness ==
  /\ inv.status = "raised" /\ inv.kind = "NotFound" /\ inv.at = 2
  /\ inv.name = NameB /\ CheckpointOf(inv.dirs[2]) = NameB
  /\ Len(inv.calls) = 1 /\ NDirs = 3

\* C7: after an invocation that failed with MissingInput, NameConflict or
\* NotFound the cached result is None, also when an earlier invocation had
\* cached one; while a run is in progress no running result is in the cache.
C7_NoPartialResult ==
  /\ (inv.status = "raised" /\ inv.kind \in {"MissingInput", "NameConflict", "NotFound"})
       => result[inv.pipe] = None
  /\ pc = "exec" => result[self] = None

C7_Witness ==
  /\ inv.status = "raised" /\ inv.kind = "MissingInput"
  /\ inv.oresult # None /\ inv.ostore # EmptyDict
  /\ result[inv.pipe] = None

\* C8: invoked with data and a parent linkage, a pipeline warns, raises no
\* error for it, and starts from the seed pulled from the parent: the
\* parent's cached result, or the parent's named checkpoint.
C8_ParentWins ==
  (Started /\ inv.parent # NoPipe /\ inv.data # None) =>
    /\ inv.warned
    /\ inv.sc = None =>
         /\ inv.seeded
         /\ inv.seed = IF inv.parent = inv.pipe THEN None ELSE inv.presult
    /\ (inv.sc # None /\ inv.sc \in DOMAIN inv.pstore) =>
         /\ inv.seeded
         /\ inv.seed = inv.pstore[inv.sc]

\* C9: attach followed by detach leaves the pipeline unlinked (no parent, no
\* starting checkpoint): invoked without data it raises MissingInput, invoked
\* with data x it starts from x and does not warn.
C9_AttachDetach ==
  /\ \A x \in Pipes : roundtrip[x] =>
       parent_pipeline[x] = NoPipe /\ starting_checkpoint[x] = None
  /\ (Started /\ inv.rt) =>
       /\ inv.parent = NoPipe /\ inv.sc = None
       /\ inv.data = None =>
            inv.status = "raised" /\ inv.kind = "MissingInput" /\ inv.calls = <<>>
       /\ inv.data # None =>
            inv.seeded /\ inv.seed = inv.data /\ ~inv.warned

C9_Witness ==
  /\ inv.rt /\ roundtrip[inv.pipe]
  /\ inv.data = None /\ inv.status = "raised" /\ inv.kind = "MissingInput"

\* C10: an empty directive list invoked with explicit data x and no parent
\* returns x, caches x as the result and leaves the checkpoint store empty.
C10_EmptyList ==
  (Started /\ Unlinked /\ inv.data # None /\ NDirs = 0) =>
    /\ inv.status = "returned"
    /\ inv.ret = inv.data
    /\ result[inv.pipe] = inv.data
    /\ checkpoints[inv.pipe] = EmptyDict
    /\ inv.calls = <<>>

C10_Witness ==
  /\ inv.status = "returned" /\ Unlinked /\ NDirs = 0
  /\ inv.data = VInt(3) /\ result[inv.pipe] = VInt(3)

\* the names and values stored by the directives called so far in this
\* invocation: directive i stores when its function returned and the
\* invocation went on past its store
StoredBy(i) ==
  /\ CheckpointOf(inv.dirs[i]) # None
  /\ ~inv.calls[i].raised
  /\ ~(inv.status = "raised" /\ inv.at = i)

C11_State ==
  Started =>
    /\ \A n \in DOMAIN checkpoints[inv.pipe] :
         \E i \in 1..Len(inv.calls) :
           /\ StoredBy(i) /\ CheckpointOf(inv.dirs[i]) = n
           /\ checkpoints[inv.pipe][n] = inv.calls[i].ret
    /\ (inv.status = "raised" /\ inv.kind = "NameConflict" /\ inv.name # EmptyStr) =>
         \E i \in 1..(inv.at - 1) : StoredBy(i) /\ CheckpointOf(inv.dirs[i]) = inv.name

C11_Step ==
  (pc = "idle" /\ inv' # inv) => checkpoints'[inv'.pipe] = EmptyDict

\* C11: every invocation starts from an empty checkpoint store, whatever the
\* previous one left: the store holds only what directives of the current
\* invocation stored, and a NameConflict is never due to a name of an
\* earlier run.
C11_StoreReset == [](C11_State) /\ [][C11_Step]_vars

C11_Witness ==
  /\ inv.status = "returned" /\ NameA \in DOMAIN inv.ostore
  /\ NameA \in DOMAIN checkpoints[inv.pipe]
  /\ Len(inv.calls) = MaxLen

\* this invocation repeats the one before it: same pipeline, directive
\* list, linkage, data and seed
Repeated ==
  /\ Finished /\ inv.prev.twice
  /\ inv.prev.dirs = inv.dirs
  /\ inv.prev.parent = inv.parent /\ inv.prev.sc = inv.sc
  /\ inv.prev.data = inv.data
  /\ inv.prev.seeded = inv.seeded /\ inv.prev.seed = inv.seed

\* C12: invoking a pipeline a second time with the same directive list,
\* linkage and seed leaves the checkpoint store and the cached result as the
\* first invocation left them, and ends in the same way (return, or the same
\* error).
C12_Idempotent ==
  Repeated =>
    /\ checkpoints[inv.pipe] = inv.ostore
    /\ result[inv.pipe] = inv.oresult
    /\ inv.status = inv.prev.status
    /\ inv.kind = inv.prev.kind /\ inv.exc = inv.prev.exc
    /\ inv.name = inv.prev.name

C12_Witness ==
  /\ Repeated /\ inv.status = "returned"
  /\ Len(inv.calls) >= 2
  /\ NameA \in DOMAIN checkpoints[inv.pipe]
  /\ result[inv.pipe] # None

Appended == app.pipe # NoPipe

\* C13: append given a sequence with a candidate that is not a dict, or has
\* a key outside the five allowed ones, raises SchemaError and leaves the
\* container as it was, wherever the bad candidate sits.
C13_AppendAllOrNothing ==
  Appended =>
    /\ app.raised <=> \E i \in 1..Len(app.items) :
                        \/ ~IsDict(app.items[i])
                        \/ ~(DOMAIN app.items[i].dict \subseteq AllowedKeys)
    /\ app.raised => directives[app.pipe] = app.before

C13_Witness ==
  /\ Appended /\ app.raised
  /\ Len(app.items) = MaxItems /\ Len(app.before) >= 1
  /\ app.items[1] = Double /\ app.items[Len(app.items)] = BadKey
  /\ directives[app.pipe] = app.before

\* a directive record: a dict with keys among the five allowed ones and
\* with the key function
IsDirective(d) ==
  /\ IsDict(d)
  /\ DOMAIN d.dict \subseteq AllowedKeys
  /\ "function" \in DOMAIN d.dict

\* C14: every element of every directive container is a directive record.
C14_ContainerInvariant ==
  \A x \in Pipes : \A i \in 1..Len(directives[x]) : IsDirective(directives[x][i])

\* C19: a successful append of n >= 1 valid directives extends the container
\* by exactly those n records, in order, at its end, and a following
\* invocation executes each of them.
C19_AppendExtends ==
  (/\ Appended /\ ~app.raised /\ Len(app.items) >= 1
   /\ \A i \in 1..Len(app.items) : IsDirective(app.items[i])) =>
    /\ directives[app.pipe] = app.before \o app.items
    /\ (/\ inv.pipe = app.pipe /\ inv.dirs = directives[app.pipe]
        /\ inv.status = "raised" /\ inv.at > Len(app.before)) =>
         IsDirective(inv.dirs[inv.at])

\* C15: result substitution keeps the length and order of the argument
\* sequence, puts the running result at every position holding '__' (none,
\* one or several) and leaves every other argument as it is; ('__', 5) with
\* running result 10 becomes (10, 5).
C15_ResultSubstitution ==
  rr.applied =>
    /\ DOMAIN rr.out = DOMAIN rr.args
    /\ \A i \in DOMAIN rr.args :
         /\ rr.args[i] = ResultToken => rr.out[i] = rr.res
         /\ rr.args[i] # ResultToken => rr.out[i] = rr.args[i]
    /\ (rr.res = VInt(10) /\ rr.args = <<ResultToken, VInt(5)>>) =>
         rr.out = <<VInt(10), VInt(5)>>

C15_Witness ==
  /\ rr.applied /\ rr.res = VInt(10)
  /\ rr.args = <<ResultToken, VInt(5), ResultToken>>
  /\ rr.out = <<VInt(10), VInt(5), VInt(10)>>

\* the elements of a returned value at the indices of result_select
Selected(ret, rs) ==
  VTup([k \in 1..Len(rs.tup) |-> select_result(ret, rs.tup[k].int)])

ResultSelectOf(d) == _get(d.dict, "result_select")

\* C16: a directive with checkpoint and result_select stores the whole value
\* its function returned, and hands on (to the next directive, or to the
\* cache as the final result) the sequence of that value's elements at the
\* result_select indices, in order.
C16_StoreWholeHandProjection ==
  Started =>
    \A i \in 1..Len(inv.calls) :
      (StoredBy(i) /\ ResultSelectOf(inv.dirs[i]) # None) =>
        /\ checkpoints[inv.pipe][CheckpointOf(inv.dirs[i])] = inv.calls[i].ret
        /\ i < Len(inv.calls) =>
             Materialize(inv.calls[i + 1].inp, inv.calls[i + 1].inp)
               = Ok(Selected(inv.calls[i].ret, ResultSelectOf(inv.dirs[i])))
        /\ (i = NDirs /\ inv.status = "returned") =>
             Materialize(result[inv.pipe], result[inv.pipe])
               = Ok(Selected(inv.calls[i].ret, ResultSelectOf(inv.dirs[i])))

\* the arguments of a directive as written
LiteralArgs(d) ==
  IF _get(d.dict, "args") = None THEN <<ResultToken>> ELSE ArgSeq(_get(d.dict, "args"))

\* C18: in the arguments a directive's function is called with, every
\* position written as '__' holds the running result, whatever that value
\* is, also when it is a string '$$name$$' with name in the store.
C18_TokenHoldsRunningResult ==
  Started =>
    \A i \in 1..Len(inv.calls) :
      \A k \in 1..Len(LiteralArgs(inv.dirs[i])) :
        LiteralArgs(inv.dirs[i])[k] = ResultToken =>
          inv.calls[i].args[k] = inv.calls[i].inp

\* a step of an invocation: it starts one, or it is taken inside one
InvocationStep == inv' # inv \/ pc = "exec"

\* C17: an invocation, whether it returns or raises, leaves the directive
\* list, the parent reference and the starting-checkpoint name as they were.
C17_InvocationFrame ==
  [][InvocationStep =>
       /\ directives' = directives
       /\ parent_pipeline' = parent_pipeline
       /\ starting_checkpoint' = starting_checkpoint]_vars

C17_Witness ==
  /\ inv.status = "returned" /\ inv.parent # NoPipe /\ inv.parent # inv.pipe
  /\ inv.seed # None /\ Len(inv.calls) >= 1
  /\ parent_pipeline[inv.pipe] = inv.parent
  /\ starting_checkpoint[inv.pipe] = inv.sc
  /\ directives[inv.pipe] = inv.dirs

\* C20: a pipeline with a parent and no starting-checkpoint name starts from
\* the result the parent had cached just before the invocation began, also
\* when the parent is the pipeline itself.
C20_SeedIsParentResultBefore ==
  (Started /\ inv.parent # NoPipe /\ inv.sc = None) =>
    /\ inv.seeded
    /\ inv.seed = inv.presult

====
